---- MODULE Spec2Model ----
(***************************************************************************)
(* The chat front end of the property multi-agent system.                  *)
(*                                                                         *)
(*   Spec     the ChatWidget component (components/ChatWidget.tsx): its    *)
(*            React state, its effect, its event handlers, and the         *)
(*            suspended invocations of handleSendMessage together with the *)
(*            network that settles their fetch and json promises.          *)
(*   LiveSpec Spec with the fairness of the JavaScript job queue and of a  *)
(*            network that settles every promise.                          *)
(*   SpecApi  the stand-alone API client chatWithAgent (services/api).     *)
(*                                                                         *)
(* A text is a sequence of tokens (one-character strings for typed text,   *)
(* whole strings for the literals of the source).  The timestamp of a      *)
(* ChatMessage is written by the code and never read; it is left out.      *)
(***************************************************************************)
EXTENDS Integers, Sequences, FiniteSets, TLC

VARIABLES
    messages,       \* useState<ChatMessage[]>            ChatWidget.tsx:42
    inputValue,     \* useState("")                       ChatWidget.tsx:50
    isLoading,      \* useState(false)                    ChatWidget.tsx:51
    threadId,       \* useState<string | null>(null)      ChatWidget.tsx:52
    effectPending,  \* the effect of line 56 is scheduled (a dependency changed)
    uuidCount,      \* how many uuidv4() values have been drawn
    calls,          \* invocations of handleSendMessage suspended at an await
    requests,       \* every request handed to fetch, in order
    outcomes,       \* per request: "pending", "ok" or "failed"
    toasts,         \* every toast shown, in order
    console,        \* every console.log / console.error entry, in order
    sendCalls,      \* how many times handleSendMessage / chatWithAgent was invoked
    apiCalls,       \* invocations of chatWithAgent suspended at an await
    apiResults      \* the values chatWithAgent's promises resolved to

vars == <<messages, inputValue, isLoading, threadId, effectPending, uuidCount,
          calls, requests, outcomes, toasts, console, sendCalls,
          apiCalls, apiResults>>

widgetVars == <<messages, inputValue, isLoading, threadId, effectPending,
                uuidCount, calls, toasts>>

apiVars == <<apiCalls, apiResults>>

----------------------------------------------------------------------------
(* Bounds and input sets *)

MaxCalls == 3

Inputs ==
    { <<>>, <<" ", " ">>, <<"a">>, <<" ", "a", " ">> }

Responses == { <<"x">>, <<"y">> }

Statuses == { 200, 500 }

----------------------------------------------------------------------------
(* Values *)

NULL == <<"null", 0>>

Undefined == <<"undefined">>

uuidv4(n) == <<"uuid", n + 1>>

WelcomeMessage ==
    [ id      |-> <<"welcome-message", 0>>,
      content |-> <<"Hello! I'm PropertyBot. How can I help you find your dream property today?">>,
      role    |-> "assistant" ]

IndexProps == [ useMock |-> TRUE ]

INQUIRY_URL == "http://localhost:8000/api/property/inquiry"

API_URL == "http://localhost:8000"

CHAT_URL == "http://localhost:8000/chat"

NoData == [ response |-> Undefined ]

----------------------------------------------------------------------------
(* String.prototype.trim *)

IsWhitespace(c) == c = " "

RECURSIVE TrimStart(_)
TrimStart(s) ==
    IF s = <<>> THEN <<>>
    ELSE IF IsWhitespace(Head(s)) THEN TrimStart(Tail(s))
    ELSE s

RECURSIVE TrimEnd(_)
TrimEnd(s) ==
    IF s = <<>> THEN <<>>
    ELSE IF IsWhitespace(s[Len(s)]) THEN TrimEnd(SubSeq(s, 1, Len(s) - 1))
    ELSE s

Trim(s) == TrimEnd(TrimStart(s))

----------------------------------------------------------------------------
(* ChatWidget: values built by the component *)

UserMessage(id, content) ==
    [ id |-> id, content |-> content, role |-> "user" ]

BotMessage_wrongField(id, data) ==
    [ id |-> id, content |-> Undefined, role |-> "assistant" ]

BotMessage(id, data) ==
    [ id |-> id, content |-> data.response, role |-> "assistant" ]

\* body: JSON.stringify({ query: inputValue, ... }): inputValue is the constant
\* of the render the handler closed over, not the state set by setInputValue("").
RequestQuery_afterClear(closureInput, stateInput) == stateInput

RequestQuery(closureInput, stateInput) == closureInput

InquiryRequest(query, tid) ==
    [ url    |-> INQUIRY_URL,
      method |-> "POST",
      body   |-> [ query |-> query, thread_id |-> tid ] ]

\* setMessages((prev) => [...prev, m]): the updater reads the current state,
\* not the messages the suspended handler closed over.
AppendMessage_staleClosure(prev, closure, m) == Append(closure, m)

AppendMessage(prev, closure, m) == Append(prev, m)

\* if (!inputValue.trim() || !threadId) return;
Rejected_noThreadCheck(input, tid) == Trim(input) = <<>>

Rejected(input, tid) == Trim(input) = <<>> \/ tid = NULL

\* if (!threadId) of the effect
NeedsThreadId_always(tid) == TRUE

NeedsThreadId(tid) == tid = NULL

\* response.ok: the status is in the range 200-299
ResponseOk(status) == status >= 200 /\ status <= 299

HttpErrorMessage(status) == << "HTTP error! status: ", ToString(status) >>

NetworkErrorMessage == << "Failed to fetch" >>

ParseErrorMessage == << "Unexpected token < in JSON at position 0" >>

ErrorMessages ==
    { HttpErrorMessage(s) : s \in Statuses } \cup { NetworkErrorMessage, ParseErrorMessage }

\* toast({ title, description, variant }) of the catch block
ErrorToast_echo(error) ==
    [ title       |-> "Error",
      description |-> error,
      variant     |-> "destructive" ]

ErrorToast(error) ==
    [ title       |-> "Error",
      description |-> << "Failed to connect to the property agent. Please try again." >>,
      variant     |-> "destructive" ]

\* the catch block appends nothing to the transcript
CatchMessages_apology(prev, id) ==
    Append(prev, [ id |-> id, content |-> << "Sorry, something went wrong." >>,
                   role |-> "assistant" ])

CatchMessages(prev, id) == prev

\* finally { setIsLoading(false) }
Finally_skipped(loading) == loading

Finally(loading) == FALSE

\* <Input disabled={isLoading} />
InputDisabled_never == FALSE

InputDisabled == isLoading

\* <Button disabled={isLoading || !inputValue.trim()} />
ButtonDisabled == isLoading \/ Trim(inputValue) = <<>>

----------------------------------------------------------------------------
(* ChatWidget: initial state and steps *)

Init ==
    /\ messages = << WelcomeMessage >>
    /\ inputValue = <<>>
    /\ isLoading = FALSE
    /\ threadId = NULL
    /\ effectPending = TRUE
    /\ uuidCount = 0
    /\ calls = {}
    /\ requests = <<>>
    /\ outcomes = <<>>
    /\ toasts = <<>>
    /\ console = <<>>
    /\ sendCalls = 0
    /\ apiCalls = {}
    /\ apiResults = <<>>

\* useEffect(() => { if (!threadId) setThreadId(uuidv4()); ... }, [messages, threadId])
RunEffect ==
    /\ effectPending
    /\ IF NeedsThreadId(threadId)
       THEN /\ threadId' = uuidv4(uuidCount)
            /\ uuidCount' = uuidCount + 1
            /\ effectPending' = TRUE
       ELSE /\ effectPending' = FALSE
            /\ UNCHANGED <<threadId, uuidCount>>
    /\ UNCHANGED <<messages, inputValue, isLoading, calls, requests, outcomes,
                   toasts, console, sendCalls, apiCalls, apiResults>>

\* onChange={(e) => setInputValue(e.target.value)}
OnChange(v) ==
    /\ ~InputDisabled
    /\ v # inputValue
    /\ inputValue' = v
    /\ UNCHANGED <<messages, isLoading, threadId, effectPending, uuidCount, calls,
                   requests, outcomes, toasts, console, sendCalls, apiCalls,
                   apiResults>>

NewCall(req, closure) ==
    [ req |-> req, pc |-> "fetch", status |-> 0, data |-> NoData,
      closure |-> closure ]

handleSendMessage ==
    /\ sendCalls < MaxCalls
    /\ sendCalls' = sendCalls + 1
    /\ IF Rejected(inputValue, threadId)
       THEN UNCHANGED <<messages, inputValue, isLoading, effectPending, uuidCount,
                        calls, requests, outcomes>>
       ELSE /\ messages' = Append(messages,
                                  UserMessage(uuidv4(uuidCount), inputValue))
            /\ uuidCount' = uuidCount + 1
            /\ inputValue' = <<>>
            /\ isLoading' = TRUE
            /\ requests' = Append(requests,
                                  InquiryRequest(RequestQuery(inputValue, <<>>),
                                                 threadId))
            /\ outcomes' = Append(outcomes, "pending")
            /\ calls' = calls \cup { NewCall(Len(requests) + 1, messages) }
            /\ effectPending' = TRUE
    /\ UNCHANGED <<threadId, toasts, console, apiCalls, apiResults>>

\* <Button onClick={handleSendMessage} ...>
ClickSend ==
    /\ ~ButtonDisabled
    /\ handleSendMessage

\* handleKeyDown: Enter without Shift on the input
handleKeyDown ==
    /\ ~InputDisabled
    /\ handleSendMessage

\* the network settles the promise of fetch(...)
FetchFulfil(c, status) ==
    /\ c \in calls
    /\ c.pc = "fetch"
    /\ calls' = (calls \ {c}) \cup { [c EXCEPT !.pc = "fetchFulfilled", !.status = status] }
    /\ UNCHANGED <<messages, inputValue, isLoading, threadId, effectPending,
                   uuidCount, requests, outcomes, toasts, console, sendCalls,
                   apiCalls, apiResults>>

FetchReject(c) ==
    /\ c \in calls
    /\ c.pc = "fetch"
    /\ calls' = (calls \ {c}) \cup { [c EXCEPT !.pc = "fetchRejected"] }
    /\ UNCHANGED <<messages, inputValue, isLoading, threadId, effectPending,
                   uuidCount, requests, outcomes, toasts, console, sendCalls,
                   apiCalls, apiResults>>

\* the network settles the promise of response.json()
JsonFulfil(c, r) ==
    /\ c \in calls
    /\ c.pc = "json"
    /\ calls' = (calls \ {c}) \cup
                { [c EXCEPT !.pc = "jsonFulfilled", !.data = [ response |-> r ]] }
    /\ UNCHANGED <<messages, inputValue, isLoading, threadId, effectPending,
                   uuidCount, requests, outcomes, toasts, console, sendCalls,
                   apiCalls, apiResults>>

JsonReject(c) ==
    /\ c \in calls
    /\ c.pc = "json"
    /\ calls' = (calls \ {c}) \cup { [c EXCEPT !.pc = "jsonRejected"] }
    /\ UNCHANGED <<messages, inputValue, isLoading, threadId, effectPending,
                   uuidCount, requests, outcomes, toasts, console, sendCalls,
                   apiCalls, apiResults>>

\* catch (error) { console.error; toast } finally { setIsLoading(false) }
Catch(c, error) ==
    /\ console' = Append(console, [ level |-> "error", label |-> "API Error:",
                                    payload |-> error ])
    /\ toasts' = Append(toasts, ErrorToast(error))
    /\ messages' = CatchMessages(messages, uuidv4(uuidCount))
    /\ effectPending' = (effectPending \/ messages' # messages)
    /\ isLoading' = Finally(isLoading)
    /\ outcomes' = [outcomes EXCEPT ![c.req] = "failed"]
    /\ calls' = calls \ {c}
    /\ UNCHANGED <<inputValue, threadId, uuidCount, requests, sendCalls,
                   apiCalls, apiResults>>

\* the handler resumes after `await fetch(...)`
ResumeAfterFetch(c) ==
    /\ c \in calls
    /\ c.pc \in { "fetchFulfilled", "fetchRejected" }
    /\ IF c.pc = "fetchRejected"
       THEN Catch(c, NetworkErrorMessage)
       ELSE IF ~ResponseOk(c.status)
       THEN Catch(c, HttpErrorMessage(c.status))
       ELSE /\ calls' = (calls \ {c}) \cup { [c EXCEPT !.pc = "json"] }
            /\ UNCHANGED <<messages, inputValue, isLoading, threadId,
                           effectPending, uuidCount, requests, outcomes, toasts,
                           console, sendCalls, apiCalls, apiResults>>

\* the handler resumes after `await response.json()`
ResumeAfterJson(c) ==
    /\ c \in calls
    /\ c.pc \in { "jsonFulfilled", "jsonRejected" }
    /\ IF c.pc = "jsonRejected"
       THEN Catch(c, ParseErrorMessage)
       ELSE /\ console' = Append(console, [ level |-> "log",
                                            label |-> "API Response:",
                                            payload |-> c.data.response ])
            /\ messages' = AppendMessage(messages, c.closure,
                                         BotMessage(uuidv4(uuidCount), c.data))
            /\ uuidCount' = uuidCount + 1
            /\ effectPending' = TRUE
            /\ isLoading' = Finally(isLoading)
            /\ outcomes' = [outcomes EXCEPT ![c.req] = "ok"]
            /\ calls' = calls \ {c}
            /\ UNCHANGED <<inputValue, threadId, requests, toasts, sendCalls,
                           apiCalls, apiResults>>

NetworkSettles ==
    \E c \in calls :
        \/ \E status \in Statuses : FetchFulfil(c, status)
        \/ FetchReject(c)
        \/ \E r \in Responses : JsonFulfil(c, r)
        \/ JsonReject(c)

HandlerResumes ==
    \E c \in calls : ResumeAfterFetch(c) \/ ResumeAfterJson(c)

Next ==
    \/ RunEffect
    \/ \E v \in Inputs : OnChange(v)
    \/ ClickSend
    \/ handleKeyDown
    \/ \E c \in calls, status \in Statuses : FetchFulfil(c, status)
    \/ \E c \in calls : FetchReject(c)
    \/ \E c \in calls, r \in Responses : JsonFulfil(c, r)
    \/ \E c \in calls : JsonReject(c)
    \/ \E c \in calls : ResumeAfterFetch(c)
    \/ \E c \in calls : ResumeAfterJson(c)

Spec == Init /\ [][Next]_vars

\* The job queue runs every continuation whose promise has settled, and the
\* network is assumed to settle every promise.
LiveSpec ==
    /\ Spec
    /\ WF_vars(NetworkSettles)
    /\ WF_vars(HandlerResumes)

----------------------------------------------------------------------------
(* chatWithAgent, the stand-alone API client *)

MaxApiCalls == 2

ChatRequest(message) ==
    [ url    |-> CHAT_URL,
      method |-> "POST",
      body   |-> [ message |-> message ] ]

StatusText(status) ==
    IF status = 200 THEN << "OK" >> ELSE << "Internal Server Error" >>

ApiErrorMessage(status) == << "Error: " >> \o StatusText(status)

ApiSuccess(data) == [ message |-> data.response, success |-> TRUE ]

ApiFailure ==
    [ message |-> << "Sorry, I'm having trouble connecting to the server right now. Please try again later." >>,
      success |-> FALSE ]

NewApiCall(req) ==
    [ req |-> req, pc |-> "fetch", status |-> 0, data |-> NoData ]

\* chatWithAgent(message) up to its first await
chatWithAgent(message) ==
    /\ Len(requests) < MaxApiCalls
    /\ sendCalls' = sendCalls + 1
    /\ requests' = Append(requests, ChatRequest(message))
    /\ outcomes' = Append(outcomes, "pending")
    /\ apiCalls' = apiCalls \cup { NewApiCall(Len(requests) + 1) }
    /\ UNCHANGED <<widgetVars, console, apiResults>>

ApiFetchFulfil(c, status) ==
    /\ c \in apiCalls
    /\ c.pc = "fetch"
    /\ apiCalls' = (apiCalls \ {c}) \cup
                   { [c EXCEPT !.pc = "fetchFulfilled", !.status = status] }
    /\ UNCHANGED <<widgetVars, requests, outcomes, console, sendCalls, apiResults>>

ApiFetchReject(c) ==
    /\ c \in apiCalls
    /\ c.pc = "fetch"
    /\ apiCalls' = (apiCalls \ {c}) \cup { [c EXCEPT !.pc = "fetchRejected"] }
    /\ UNCHANGED <<widgetVars, requests, outcomes, console, sendCalls, apiResults>>

ApiJsonFulfil(c, r) ==
    /\ c \in apiCalls
    /\ c.pc = "json"
    /\ apiCalls' = (apiCalls \ {c}) \cup
                   { [c EXCEPT !.pc = "jsonFulfilled", !.data = [ response |-> r ]] }
    /\ UNCHANGED <<widgetVars, requests, outcomes, console, sendCalls, apiResults>>

ApiJsonReject(c) ==
    /\ c \in apiCalls
    /\ c.pc = "json"
    /\ apiCalls' = (apiCalls \ {c}) \cup { [c EXCEPT !.pc = "jsonRejected"] }
    /\ UNCHANGED <<widgetVars, requests, outcomes, console, sendCalls, apiResults>>

\* catch (error) { console.error(...); return { message: "Sorry, ...", success: false } }
ApiCatch(c, error) ==
    /\ console' = Append(console, [ level |-> "error",
                                    label |-> "Error chatting with agent:",
                                    payload |-> error ])
    /\ apiResults' = Append(apiResults, [ req |-> c.req, value |-> ApiFailure ])
    /\ outcomes' = [outcomes EXCEPT ![c.req] = "failed"]
    /\ apiCalls' = apiCalls \ {c}
    /\ UNCHANGED <<widgetVars, requests, sendCalls>>

ApiResumeAfterFetch(c) ==
    /\ c \in apiCalls
    /\ c.pc \in { "fetchFulfilled", "fetchRejected" }
    /\ IF c.pc = "fetchRejected"
       THEN ApiCatch(c, NetworkErrorMessage)
       ELSE IF ~ResponseOk(c.status)
       THEN ApiCatch(c, ApiErrorMessage(c.status))
       ELSE /\ apiCalls' = (apiCalls \ {c}) \cup { [c EXCEPT !.pc = "json"] }
            /\ UNCHANGED <<widgetVars, requests, outcomes, console, sendCalls,
                           apiResults>>

ApiResumeAfterJson(c) ==
    /\ c \in apiCalls
    /\ c.pc \in { "jsonFulfilled", "jsonRejected" }
    /\ IF c.pc = "jsonRejected"
       THEN ApiCatch(c, ParseErrorMessage)
       ELSE /\ apiResults' = Append(apiResults,
                                    [ req |-> c.req, value |-> ApiSuccess(c.data) ])
            /\ outcomes' = [outcomes EXCEPT ![c.req] = "ok"]
            /\ apiCalls' = apiCalls \ {c}
            /\ UNCHANGED <<widgetVars, requests, console, sendCalls>>

NextApi ==
    \/ \E m \in Inputs : chatWithAgent(m)
    \/ \E c \in apiCalls, status \in Statuses : ApiFetchFulfil(c, status)
    \/ \E c \in apiCalls : ApiFetchReject(c)
    \/ \E c \in apiCalls, r \in Responses : ApiJsonFulfil(c, r)
    \/ \E c \in apiCalls : ApiJsonReject(c)
    \/ \E c \in apiCalls : ApiResumeAfterFetch(c)
    \/ \E c \in apiCalls : ApiResumeAfterJson(c)

SpecApi == Init /\ [][NextApi]_vars

----------------------------------------------------------------------------
(* Helpers of the properties *)

IsPrefix(s, t) == Len(s) <= Len(t) /\ SubSeq(t, 1, Len(s)) = s

Roles(ms) == [ i \in DOMAIN ms |-> ms[i].role ]

Count(seq, v) == Cardinality({ i \in DOMAIN seq : seq[i] = v })

\* The roles of the transcript that a sequence of request outcomes stands for:
\* the welcome message, then per request a user message, followed by an
\* assistant message when the request succeeded.
RECURSIVE TurnRoles(_)
TurnRoles(os) ==
    IF os = <<>> THEN <<>>
    ELSE (IF Head(os) = "ok" THEN << "user", "assistant" >> ELSE << "user" >>)
         \o TurnRoles(Tail(os))

ExpectedRoles(os) == << "assistant" >> \o TurnRoles(os)

Alternates(ms) ==
    /\ Len(ms) % 2 = 1
    /\ \A i \in DOMAIN ms : ms[i].role = (IF i % 2 = 1 THEN "assistant" ELSE "user")

ErrorEntries == { i \in DOMAIN console : console[i].level = "error" }

----------------------------------------------------------------------------
(* Properties of ChatWidget *)

\* C1: at most one invocation of handleSendMessage is between issuing its
\* request and having handled the response or failure; the widget is loading
\* while one is; and every request but the latest has completed, so request
\* n+1 is sent only after request n was handled.
C1_OneOutstanding ==
    /\ Cardinality(calls) <= 1
    /\ (calls # {} => isLoading)
    /\ \A i \in DOMAIN outcomes : i < Len(outcomes) => outcomes[i] # "pending"
    /\ Count(outcomes, "pending") = Cardinality(calls)

C1_Witness ==
    /\ Len(requests) >= 2
    /\ outcomes[1] # "pending"
    /\ Cardinality(calls) = 1

\* C2: every request sent to the inquiry endpoint has a body with exactly the
\* fields query and thread_id, the query is not blank after trimming and the
\* thread id is an assigned uuid; and an invocation of handleSendMessage with
\* a blank input or an unassigned thread id sends nothing and leaves
\* messages, inputValue and isLoading as they were.
C2_RequestWellFormed ==
    \A i \in DOMAIN requests :
        /\ requests[i].url = INQUIRY_URL
        /\ DOMAIN requests[i].body = { "query", "thread_id" }
        /\ Trim(requests[i].body.query) # <<>>
        /\ requests[i].body.thread_id # NULL
        /\ requests[i].body.thread_id[1] = "uuid"

C2_EarlyReturn ==
    (sendCalls' # sendCalls /\ (Trim(inputValue) = <<>> \/ threadId = NULL))
        => UNCHANGED <<messages, inputValue, isLoading, requests, calls>>

C2_RequestBody == []C2_RequestWellFormed /\ [][C2_EarlyReturn]_vars

C2_Witness ==
    /\ sendCalls > Len(requests)
    /\ \E i \in DOMAIN requests :
           requests[i].body.query # Trim(requests[i].body.query)

\* C3: once the thread id is assigned no step changes it, and every request
\* sent so far carries the widget's current thread id, whatever the outcomes
\* of the earlier turns.
C3_AllSameThread ==
    \A i \in DOMAIN requests : requests[i].body.thread_id = threadId

C3_StableThread ==
    /\ [][threadId # NULL => threadId' = threadId]_vars
    /\ []C3_AllSameThread

C3_Witness ==
    /\ Len(requests) >= 3
    /\ Count(outcomes, "failed") >= 1
    /\ Count(outcomes, "ok") >= 1

\* C4, as claimed: once no request is outstanding the transcript alternates
\* assistant, user, assistant, ... and ends with an assistant message.
C4_AlwaysAnswered == (calls = {}) => Alternates(messages)

\* C4, as amended: the transcript is the welcome message followed, per request
\* in order, by the user message and, only when that request succeeded, one
\* assistant message; a failed or pending request leaves its user message
\* unanswered.
C4_AnsweredOnSuccess == Roles(messages) = ExpectedRoles(outcomes)

C4_Witness ==
    /\ Len(outcomes) >= 2
    /\ outcomes[1] = "failed"
    /\ outcomes[2] = "ok"
    /\ calls = {}

\* C5: every toast is the one fixed notice, one per failed request; no toast
\* and no transcript message carries an error message; each failure's error
\* message is an entry of the console.
C5_FixedNotice ==
    /\ \A i \in DOMAIN toasts :
           /\ toasts[i].title = "Error"
           /\ toasts[i].description =
                  << "Failed to connect to the property agent. Please try again." >>
           /\ toasts[i].description \notin ErrorMessages
    /\ \A i \in DOMAIN messages : messages[i].content \notin ErrorMessages
    /\ Len(toasts) = Count(outcomes, "failed")
    /\ Cardinality(ErrorEntries) = Count(outcomes, "failed")
    /\ \A i \in ErrorEntries : console[i].payload \in ErrorMessages
    /\ Len(messages) = 1 + Len(requests) + Count(outcomes, "ok")

C5_Witness ==
    /\ Len(toasts) >= 2
    /\ toasts[1] = toasts[2]
    /\ \E i, j \in ErrorEntries : console[i].payload # console[j].payload

\* C6: every step leaves the old transcript as a prefix of the new one, and
\* the welcome message is always its first element.
C6_AppendOnly ==
    /\ [][IsPrefix(messages, messages')]_vars
    /\ [](messages[1] = WelcomeMessage)

C6_Witness ==
    /\ Len(messages) >= 5
    /\ Count(outcomes, "ok") >= 2

\* C7: the step that handles a fulfilled json() promise appends exactly one
\* message, an assistant message whose content is the body's response field,
\* directly after the user message that carries the request's query, and
\* shows no toast.
C7_Step ==
    \A c \in calls :
        (c.pc = "jsonFulfilled" /\ c \notin calls') =>
            /\ Len(messages') = Len(messages) + 1
            /\ IsPrefix(messages, messages')
            /\ messages'[Len(messages')].role = "assistant"
            /\ messages'[Len(messages')].content = c.data.response
            /\ messages[Len(messages)].role = "user"
            /\ messages[Len(messages)].content = requests[c.req].body.query
            /\ toasts' = toasts

C7_ResponseShown == [][C7_Step]_vars

C7_Witness ==
    /\ Count(outcomes, "ok") >= 1
    /\ messages[Len(messages)].role = "assistant"
    /\ messages[Len(messages)].content \in Responses

\* C8: the widget mounted by the Index page with useMock = true sends no
\* request to the inquiry endpoint.
C8_MockSendsNothing ==
    IndexProps.useMock => \A i \in DOMAIN requests : requests[i].url # INQUIRY_URL

\* C10: whenever the widget is loading it later stops loading and the input
\* is enabled again, given that the network settles the promises.
C10_LoadingEnds == isLoading ~> (~isLoading /\ ~InputDisabled)

C10_Witness ==
    /\ ~isLoading
    /\ ~InputDisabled
    /\ Count(outcomes, "failed") >= 1
    /\ Count(outcomes, "ok") >= 1

\* C11: the queries of the requests sent so far are, in order, exactly the
\* contents of the user messages of the transcript; and the step that sends a
\* request puts the input text as it was before the step, untrimmed, into
\* both the request's query and the appended user message, while it clears
\* the input field.
UserContents(ms) ==
    LET us == SelectSeq(ms, LAMBDA m : m.role = "user")
    IN  [ i \in DOMAIN us |-> us[i].content ]

RequestQueries == [ i \in DOMAIN requests |-> requests[i].body.query ]

C11_QueriesMatch == UserContents(messages) = RequestQueries

C11_SendStep ==
    Len(requests') > Len(requests) =>
        /\ requests'[Len(requests')].body.query = inputValue
        /\ messages'[Len(messages')].role = "user"
        /\ messages'[Len(messages')].content = inputValue
        /\ inputValue' = <<>>

C11_QueryIsMessage == []C11_QueriesMatch /\ [][C11_SendStep]_vars

C11_Witness ==
    /\ Len(requests) >= 2
    /\ inputValue = <<>>
    /\ requests[Len(requests)].body.query = << " ", "a", " " >>
    /\ messages[Len(messages)].content = << " ", "a", " " >>

----------------------------------------------------------------------------
(* Properties of chatWithAgent *)

\* C9: every request body chatWithAgent sends has the fields query and
\* thread_id of the inbound query endpoint.
C9_ConformsToContract ==
    \A i \in DOMAIN requests :
        requests[i].url = CHAT_URL =>
            { "query", "thread_id" } \subseteq DOMAIN requests[i].body

====
